---- MODULE Spec2Model ----
(***************************************************************************)
(* A model of app.py, the Sequence MCP gateway: the trigger authorizer,    *)
(* the search and fetch tools with their ChatGPT-facing wrappers, the      *)
(* payload normalizer, the remote amount calculator and the SSE stream.    *)
(*                                                                         *)
(* Python strings are sequences of one-character strings.  Python values   *)
(* are records [t, v]: t is the Python type and v the value.  A handler    *)
(* runs to completion without touching shared mutable state, so each       *)
(* request is one action; its response and the upstream calls it made are  *)
(* recorded in resp and calls.                                             *)
(***************************************************************************)
EXTENDS Integers, Sequences, FiniteSets, TLC

VARIABLES
    ACCESS,        \* SEQUENCE_ACCESS_TOKEN
    ADMIN,         \* MCP_ADMIN_TOKEN
    RULE_SECRETS,  \* SEQUENCE_RULE_SECRETS_JSON, a map rule id -> secret
    BUFFER,        \* SWEEP_CHECKING_BUFFER
    PCT,           \* SWEEP_PERCENT, a double
    CAP,           \* SWEEP_DAILY_CAP_CENTS
    upstream,      \* what the upstream POST /accounts answers
    req,           \* the last request handled
    norm,          \* what _normalize_payload returned for the last wrapper request
    resp,          \* the response to the last request
    calls,         \* the upstream calls the last request made
    pc,            \* per SSE stream: the position of event_stream
    disconnected,  \* per SSE stream: whether the client has gone
    observed,      \* per SSE stream: is_disconnected() has returned True
    events         \* per SSE stream: the events emitted so far

config == <<ACCESS, ADMIN, RULE_SECRETS, BUFFER, PCT, CAP>>
http == <<upstream, req, norm, resp, calls>>
stream == <<pc, disconnected, observed, events>>
vars == <<config, http, stream>>

----------------------------------------------------------------------------
(* Python strings                                                          *)

UpperCase == <<"A", "B", "C", "D", "E", "F", "G", "H", "I", "J", "K", "L", "M",
               "N", "O", "P", "Q", "R", "S", "T", "U", "V", "W", "X", "Y", "Z">>
LowerCase == <<"a", "b", "c", "d", "e", "f", "g", "h", "i", "j", "k", "l", "m",
               "n", "o", "p", "q", "r", "s", "t", "u", "v", "w", "x", "y", "z">>
Whitespace == {" ", "\t", "\n"}

\* str.lower() on one character
LowerChar(c) ==
    IF \E i \in 1..Len(UpperCase) : UpperCase[i] = c
    THEN LowerCase[CHOOSE i \in 1..Len(UpperCase) : UpperCase[i] = c]
    ELSE c

\* str.lower()
lower(s) == [i \in 1..Len(s) |-> LowerChar(s[i])]

\* sub in s
Contains(sub, s) ==
    \E i \in 0..(Len(s) - Len(sub)) : SubSeq(s, i + 1, i + Len(sub)) = sub

\* s.startswith(p)
startswith(s, p) == Len(s) >= Len(p) /\ SubSeq(s, 1, Len(p)) = p

\* s.strip()
strip(s) ==
    LET keep == {i \in 1..Len(s) : s[i] \notin Whitespace}
    IN  IF keep = {} THEN <<>>
        ELSE SubSeq(s, CHOOSE i \in keep : \A j \in keep : i <= j,
                       CHOOSE i \in keep : \A j \in keep : i >= j)

\* s.split(" ", 1)[1], for an s that holds a space
AfterFirstSpace(s) ==
    LET sp == {i \in 1..Len(s) : s[i] = " "}
        first == CHOOSE i \in sp : \A j \in sp : i <= j
    IN  SubSeq(s, first + 1, Len(s))

----------------------------------------------------------------------------
(* Python values                                                           *)

None == [t |-> "none", v |-> <<>>]
Str(s) == [t |-> "str", v |-> s]
Num(n) == [t |-> "num", v |-> n]
List(l) == [t |-> "list", v |-> l]
Dict(d) == [t |-> "dict", v |-> d]
Bytes(b) == [t |-> "bytes", v |-> b]

\* Python truthiness: None, "", 0, [] and {} are falsy
Truthy(x) ==
    CASE x.t = "none" -> FALSE
      [] x.t = "str" -> x.v # <<>>
      [] x.t = "num" -> x.v # 0
      [] x.t = "list" -> x.v # <<>>
      [] x.t = "dict" -> DOMAIN x.v # {}
      [] OTHER -> TRUE

\* d.get(k, default) on the mapping of a dict
Get(d, k, default) == IF k \in DOMAIN d THEN d[k] ELSE default

\* x or y
Or(x, y) == IF Truthy(x) THEN x ELSE y

----------------------------------------------------------------------------
(* Responses and upstream calls                                            *)

\* raise HTTPException(status, detail)
HTTPException(status, detail) == [status |-> status, detail |-> detail, body |-> None]
\* an exception no handler catches: the framework answers 500
ServerError(what) == [status |-> 500, detail |-> what, body |-> None]
\* a handler's return value
Ok(body) == [status |-> 200, detail |-> "", body |-> body]

NoRequest == [op |-> "none", arg |-> None, rule |-> <<>>, up |-> "ok"]
NoResponse == [status |-> 0, detail |-> "", body |-> None]

Bearer == <<"B", "e", "a", "r", "e", "r", " ">>

\* client.post(f"{SEQUENCE_API}/accounts", headers=...)
AccountsCall == [endpoint |-> "accounts", rule |-> <<>>, auth |-> Bearer \o ACCESS]

----------------------------------------------------------------------------
(* Values the variables hold while the part of the program they belong to  *)
(* is not under study                                                      *)

\* the double 0.0
NoPercent == [m |-> <<>>, k |-> 0]
IdleConfig ==
    /\ ACCESS = <<"t">>
    /\ ADMIN = <<>>
    /\ RULE_SECRETS = <<>>
    /\ BUFFER = 0
    /\ PCT = NoPercent
    /\ CAP = 0
IdleHttp ==
    /\ upstream = [status |-> "ok", body |-> None]
    /\ req = NoRequest
    /\ norm = None
    /\ resp = NoResponse
    /\ calls = <<>>
IdleStream ==
    /\ pc = <<>>
    /\ disconnected = <<>>
    /\ observed = <<>>
    /\ events = <<>>

----------------------------------------------------------------------------
(* POST /rules/{rule_id}/trigger                                           *)

\* what the upstream trigger endpoint answers when it succeeds
TriggerReply == Dict([k \in {<<"o", "k">>} |-> Str(<<"1">>)])

\* a variant with a fault: the admin token is sent upstream
TriggerCallAdmin(rule_id, secret) ==
    [endpoint |-> "trigger", rule |-> rule_id, auth |-> Bearer \o ADMIN]

\* client.post(f"{SEQUENCE_API}/remote-api/rules/{rule_id}/trigger",
\*             headers={"x-sequence-signature": f"Bearer {secret}", ...})
TriggerCall(rule_id, secret) ==
    [endpoint |-> "trigger", rule |-> rule_id, auth |-> Bearer \o secret]

\* a variant with a fault: the allow-list is consulted before the admin token
trigger_rule_listfirst(rule_id, x_admin, up) ==
    IF ~Truthy(x_admin) \/ ~startswith(x_admin.v, Bearer)
    THEN [resp |-> HTTPException(401, "Unauthorized"), calls |-> <<>>]
    ELSE LET token_value == AfterFirstSpace(x_admin.v)
             secret == Get(RULE_SECRETS, rule_id, None)
         IN  IF ~Truthy(secret)
             THEN [resp |-> HTTPException(403, "Rule not whitelisted"), calls |-> <<>>]
             ELSE IF token_value # ADMIN
             THEN [resp |-> HTTPException(403, "Forbidden"), calls |-> <<>>]
             ELSE [resp |-> IF up = "ok" THEN Ok(TriggerReply)
                                         ELSE ServerError("HTTPStatusError"),
                   calls |-> <<TriggerCall(rule_id, secret.v)>>]

\* trigger_rule(rule_id, request, x_admin); up is what the upstream call does
trigger_rule(rule_id, x_admin, up) ==
    IF ~Truthy(x_admin) \/ ~startswith(x_admin.v, Bearer)
    THEN [resp |-> HTTPException(401, "Unauthorized"), calls |-> <<>>]
    ELSE LET token_value == AfterFirstSpace(x_admin.v)
         IN  IF token_value # ADMIN
             THEN [resp |-> HTTPException(403, "Forbidden"), calls |-> <<>>]
             ELSE LET secret == Get(RULE_SECRETS, rule_id, None)
                  IN  IF ~Truthy(secret)
                      THEN [resp |-> HTTPException(403, "Rule not whitelisted"),
                            calls |-> <<>>]
                      ELSE [resp |-> IF up = "ok" THEN Ok(TriggerReply)
                                                  ELSE ServerError("HTTPStatusError"),
                            calls |-> <<TriggerCall(rule_id, secret.v)>>]

\* the inputs of the trigger endpoint
AdminSecrets == {<<>>, <<"x">>, <<"y">>}
RuleSecretValues == {None, Str(<<>>), Str(<<"x">>), Str(<<"k">>), Str(<<"j">>)}
ListedRuleIds == {<<"r", "u", "_", "1">>, <<"r", "u", "_", "2">>}
RuleIdInputs == ListedRuleIds \cup {<<"r", "u", "_", "9">>}
HeaderInputs ==
    {None, Str(<<>>), Str(<<"B", "e", "a", "r", "e", "r">>), Str(Bearer),
     Str(Bearer \o <<"x">>), Str(Bearer \o <<"y">>), Str(Bearer \o <<" ", "x">>),
     Str(<<"b", "e", "a", "r", "e", "r", " ", "x">>), Str(<<"x">>),
     Str(<<"B", "a", "s", "i", "c", " ", "x">>)}
UpstreamOutcomes == {"ok", "error"}

TriggerRule ==
    \E rule_id \in RuleIdInputs, x_admin \in HeaderInputs, up \in UpstreamOutcomes :
        LET r == trigger_rule(rule_id, x_admin, up)
        IN  /\ req' = [op |-> "trigger", arg |-> x_admin, rule |-> rule_id, up |-> up]
            /\ resp' = r.resp
            /\ calls' = r.calls
            /\ UNCHANGED <<config, upstream, norm, stream>>

InitTrigger ==
    /\ ACCESS = <<"t">>
    /\ ADMIN \in AdminSecrets
    /\ \E listed \in SUBSET ListedRuleIds : RULE_SECRETS \in [listed -> RuleSecretValues]
    /\ BUFFER = 0 /\ PCT = NoPercent /\ CAP = 0
    /\ IdleHttp
    /\ IdleStream

NextTrigger == TriggerRule

SpecTrigger == InitTrigger /\ [][NextTrigger]_vars

----------------------------------------------------------------------------
(* The trigger endpoint's claims                                           *)

\* the token a Bearer-prefixed header carries
TokenOf(h) == SubSeq(h, Len(Bearer) + 1, Len(h))
HeaderOk == req.arg.t = "str" /\ startswith(req.arg.v, Bearer)
TokenOk == HeaderOk /\ TokenOf(req.arg.v) = ADMIN
Rejected(status, detail) ==
    resp.status = status /\ resp.detail = detail /\ calls = <<>>
OneTriggerCall ==
    Len(calls) = 1 /\ calls[1].endpoint = "trigger" /\ calls[1].rule = req.rule

\* C1, as stated: header -> admin secret -> allow-list, the first failing
\* check decides; a missing or non-Bearer header gives 401, a wrong token
\* 403 "Forbidden", a correct token with a rule id that has no entry in the
\* table 403 "Rule not whitelisted", and a correct token with a listed rule
\* id exactly one upstream call.
C1_AsStated ==
    req.op = "trigger" =>
        /\ ~HeaderOk => Rejected(401, "Unauthorized")
        /\ HeaderOk /\ ~TokenOk => Rejected(403, "Forbidden")
        /\ TokenOk /\ req.rule \notin DOMAIN RULE_SECRETS
              => Rejected(403, "Rule not whitelisted")
        /\ TokenOk /\ req.rule \in DOMAIN RULE_SECRETS => OneTriggerCall

\* the rule has an entry and the entry is a non-empty secret
UsableSecret ==
    req.rule \in DOMAIN RULE_SECRETS /\ RULE_SECRETS[req.rule].v # <<>>

\* C1, amended: as C1, but the allow-list check rejects a rule id that has no
\* entry or whose entry is empty, and only a rule id listed with a non-empty
\* secret leads to the one upstream call.
C1_TriggerOrder ==
    req.op = "trigger" =>
        /\ ~HeaderOk => Rejected(401, "Unauthorized")
        /\ HeaderOk /\ ~TokenOk => Rejected(403, "Forbidden")
        /\ TokenOk /\ ~UsableSecret => Rejected(403, "Rule not whitelisted")
        /\ TokenOk /\ UsableSecret => OneTriggerCall

\* C1's case: a wrong token for an unlisted rule has been refused as
\* "Forbidden", and this deployment also lists a rule with a usable secret.
C1_Witness ==
    /\ req.op = "trigger"
    /\ HeaderOk /\ ~TokenOk /\ req.rule \notin DOMAIN RULE_SECRETS
    /\ resp.status = 403 /\ resp.detail = "Forbidden"
    /\ \E r \in DOMAIN RULE_SECRETS : RULE_SECRETS[r].v # <<>>

\* C2: the signature of an upstream trigger call for rule r is "Bearer "
\* followed by the secret the table stores for r; the token received in
\* x-admin is not what is sent.
C2_PerRuleSecret ==
    \A i \in 1..Len(calls) :
        calls[i].endpoint = "trigger" =>
            /\ calls[i].rule = req.rule
            /\ calls[i].rule \in DOMAIN RULE_SECRETS
            /\ calls[i].auth = Bearer \o RULE_SECRETS[calls[i].rule].v

\* C2's case: a rule was triggered whose secret differs from the admin
\* secret and from the other rule's secret.
C2_Witness ==
    /\ req.op = "trigger" /\ Len(calls) = 1
    /\ RULE_SECRETS[req.rule].v # ADMIN
    /\ \E r \in DOMAIN RULE_SECRETS :
           r # req.rule /\ RULE_SECRETS[r] # RULE_SECRETS[req.rule]
    /\ calls[1].auth # Bearer \o ADMIN

----------------------------------------------------------------------------
(* seq_accounts: the one call to the upstream accounts endpoint            *)

K_data == <<"d", "a", "t", "a">>
K_accounts == <<"a", "c", "c", "o", "u", "n", "t", "s">>
K_id == <<"i", "d">>
K_name == <<"n", "a", "m", "e">>
K_balance == <<"b", "a", "l", "a", "n", "c", "e">>
K_amountInDollars ==
    <<"a", "m", "o", "u", "n", "t", "I", "n", "D", "o", "l", "l", "a", "r", "s">>
K_query == <<"q", "u", "e", "r", "y">>
K_raw == <<"r", "a", "w">>

EmptyDict == Dict([k \in {} |-> None])

\* a handler's outcome: its response and the upstream calls it made
Outcome(r, c) == [resp |-> r, calls |-> c]

\* a variant with a fault: strict indexing, body["data"]["accounts"]
seq_accounts_strict ==
    IF ACCESS = <<>>
    THEN [ok |-> FALSE, value |-> None, calls |-> <<>>,
          error |-> HTTPException(500, "SEQUENCE_ACCESS_TOKEN missing")]
    ELSE IF upstream.status # "ok"
    THEN [ok |-> FALSE, value |-> None, calls |-> <<AccountsCall>>,
          error |-> ServerError("HTTPStatusError")]
    ELSE LET body == upstream.body
         IN  IF \/ body.t # "dict"
                \/ K_data \notin DOMAIN body.v
                \/ body.v[K_data].t # "dict"
                \/ K_accounts \notin DOMAIN body.v[K_data].v
             THEN [ok |-> FALSE, value |-> None, calls |-> <<AccountsCall>>,
                   error |-> ServerError("KeyError")]
             ELSE [ok |-> TRUE, value |-> body.v[K_data].v[K_accounts],
                   calls |-> <<AccountsCall>>, error |-> NoResponse]

\* seq_accounts(): (body.get("data") or {}).get("accounts", [])
seq_accounts ==
    IF ACCESS = <<>>
    THEN [ok |-> FALSE, value |-> None, calls |-> <<>>,
          error |-> HTTPException(500, "SEQUENCE_ACCESS_TOKEN missing")]
    ELSE IF upstream.status # "ok"
    THEN [ok |-> FALSE, value |-> None, calls |-> <<AccountsCall>>,
          error |-> ServerError("HTTPStatusError")]
    ELSE LET body == upstream.body
         IN  IF body.t # "dict"
             THEN [ok |-> FALSE, value |-> None, calls |-> <<AccountsCall>>,
                   error |-> ServerError("AttributeError")]
             ELSE LET data == Or(Get(body.v, K_data, None), EmptyDict)
                  IN  IF data.t # "dict"
                      THEN [ok |-> FALSE, value |-> None, calls |-> <<AccountsCall>>,
                            error |-> ServerError("AttributeError")]
                      ELSE [ok |-> TRUE, value |-> Get(data.v, K_accounts, List(<<>>)),
                            calls |-> <<AccountsCall>>, error |-> NoResponse]

----------------------------------------------------------------------------
(* POST /mcp/search                                                        *)

ResultCap == 10
\* the character U+2014 of the title's separator
EmDash == "EM DASH"
AccountsUrl == <<"https://app.getsequence.io/accounts/">>
RulesUrl == <<"https://app.getsequence.io/rules/">>

Digit == <<"0", "1", "2", "3", "4", "5", "6", "7", "8", "9">>
RECURSIVE IntStr(_)
\* str(n) of an integer n >= 0
IntStr(n) == IF n < 10 THEN <<Digit[n + 1]>> ELSE IntStr(n \div 10) \o <<Digit[(n % 10) + 1]>>

\* str(x) of an id, f"{x}" of an amount
PyStr(x) ==
    CASE x.t = "str" -> x.v
      [] x.t = "num" -> IntStr(x.v)
      [] OTHER -> <<"N", "o", "n", "e">>

\* json.dumps(x): the text that encodes x
JsonDumps(x) == [json |-> x]
\* a string literal of the source
Literal(s) == [lit |-> s]

\* {"content": [{"type": "text", "text": text}]}
Envelope(text) == [content |-> <<[type |-> "text", text |-> text]>>]

\* a variant with a fault: the name is compared without lowercasing it
Matches_name_as_is(query, account) ==
    \/ query = <<>>
    \/ Contains(query, account.v[K_name].v)
    \/ Contains(query, lower(PyStr(account.v[K_id])))
    \/ query \in {<<"b", "a", "l", "a", "n", "c", "e", "s">>, K_accounts}

\* the test of mcp_search's loop on one account
Matches(query, account) ==
    \/ query = <<>>
    \/ Contains(query, lower(account.v[K_name].v))
    \/ Contains(query, lower(PyStr(account.v[K_id])))
    \/ query \in {<<"b", "a", "l", "a", "n", "c", "e", "s">>, K_accounts}

\* the result item mcp_search builds for one account
ResultItem(account) ==
    LET bal == Or(Get(account.v, K_balance, EmptyDict), EmptyDict)
        amt == Get(bal.v, K_amountInDollars, None)
        name == account.v[K_name].v
    IN  [id |-> PyStr(account.v[K_id]),
         title |-> IF amt.t # "none"
                   THEN name \o <<" ", EmDash, " ", "$">> \o PyStr(amt)
                   ELSE name,
         url |-> AccountsUrl \o PyStr(account.v[K_id])]

\* [x for x in l if P(x)], in order
RECURSIVE SelectMatches(_, _)
SelectMatches(query, l) ==
    IF l = <<>> THEN <<>>
    ELSE (IF Matches(query, Head(l)) THEN <<ResultItem(Head(l))>> ELSE <<>>)
         \o SelectMatches(query, Tail(l))

\* a variant with a fault: one item short, l[:n - 1]
Take_one_short(l, n) == SubSeq(l, 1, IF Len(l) < n - 1 THEN Len(l) ELSE n - 1)

\* l[:n]
Take(l, n) == SubSeq(l, 1, IF Len(l) < n THEN Len(l) ELSE n)

\* mcp_search(payload)
mcp_search(payload) ==
    IF payload.t # "dict" THEN Outcome(ServerError("AttributeError"), <<>>)
    ELSE LET q == Or(Get(payload.v, K_query, None), Str(<<>>))
         IN  IF q.t # "str" THEN Outcome(ServerError("AttributeError"), <<>>)
             ELSE LET query == lower(q.v)
                      got == seq_accounts
                  IN  IF ~got.ok THEN Outcome(got.error, got.calls)
                      ELSE IF got.value.t # "list"
                      THEN Outcome(ServerError("TypeError"), got.calls)
                      ELSE LET results == SelectMatches(query, got.value.v)
                               content == JsonDumps([results |-> Take(results, ResultCap)])
                           IN  Outcome(Ok(Envelope(content)), got.calls)

----------------------------------------------------------------------------
(* POST /mcp/fetch                                                         *)

RuleText == "Rule descriptor. Use POST /rules/{id}/trigger with x-admin header to invoke."

\* a variant with a fault: the ids are compared without regard to case
FirstMatch_any_case(accounts, record_id) ==
    LET hits == {i \in 1..Len(accounts) :
                    lower(PyStr(Get(accounts[i].v, K_id, None))) = lower(record_id)}
    IN  IF hits = {} THEN None
        ELSE accounts[CHOOSE i \in hits : \A j \in hits : i <= j]

\* next((acct for acct in accounts if str(acct.get("id")) == record_id), None)
FirstMatch(accounts, record_id) ==
    LET hits == {i \in 1..Len(accounts) :
                    PyStr(Get(accounts[i].v, K_id, None)) = record_id}
    IN  IF hits = {} THEN None
        ELSE accounts[CHOOSE i \in hits : \A j \in hits : i <= j]

\* mcp_fetch(payload)
mcp_fetch(payload) ==
    IF payload.t # "dict" THEN Outcome(ServerError("AttributeError"), <<>>)
    ELSE LET i == Or(Get(payload.v, K_id, None), Str(<<>>))
         IN  IF i.t # "str" THEN Outcome(ServerError("AttributeError"), <<>>)
             ELSE LET record_id == strip(i.v)
                      got == seq_accounts
                  IN  IF ~got.ok THEN Outcome(got.error, got.calls)
                      ELSE IF got.value.t # "list"
                      THEN Outcome(ServerError("TypeError"), got.calls)
                      ELSE LET match == FirstMatch(got.value.v, record_id)
                           IN  IF Truthy(match)
                               THEN Outcome(Ok(Envelope(JsonDumps(
                                        [id |-> PyStr(match.v[K_id]),
                                         title |-> match.v[K_name].v,
                                         text |-> JsonDumps(match),
                                         url |-> AccountsUrl \o PyStr(match.v[K_id])]))),
                                      got.calls)
                               ELSE IF startswith(record_id, <<"r", "u", "_">>)
                               THEN Outcome(Ok(Envelope(JsonDumps(
                                        [id |-> record_id,
                                         title |-> <<"Sequence Rule ">> \o record_id,
                                         text |-> Literal(RuleText),
                                         url |-> RulesUrl \o record_id]))),
                                      got.calls)
                               ELSE Outcome(HTTPException(404, "Not found"), got.calls)

----------------------------------------------------------------------------
(* _normalize_payload and the wrappers POST /search and POST /fetch        *)

\* a byte that is not valid UTF-8
BadByte == "0xFF"
Quote == "\""
JsonWhitespace == {" ", "\t", "\n", "\r"}

\* body.decode("utf-8"): fails on a byte that is not UTF-8
DecodeStrict(b) ==
    IF \E i \in 1..Len(b) : b[i] = BadByte
    THEN [ok |-> FALSE, text |-> <<>>]
    ELSE [ok |-> TRUE, text |-> b]

\* body.decode("utf-8", "ignore"): drops the bytes that are not UTF-8
DecodeIgnore(b) == SelectSeq(b, LAMBDA c : c # BadByte)

\* the index of the first Quote of s after position i, 0 when there is none
NextQuote(s, i) ==
    LET qs == {j \in (i + 1)..Len(s) : s[j] = Quote}
    IN  IF qs = {} THEN 0 ELSE CHOOSE j \in qs : \A k \in qs : j <= k

\* s is a JSON string literal without escapes
IsStringLiteral(s) ==
    /\ Len(s) >= 2 /\ s[1] = Quote /\ NextQuote(s, 1) = Len(s)
    /\ \A i \in 2..(Len(s) - 1) : s[i] \notin {"\\", "\t", "\n", "\r"}

\* s is a JSON integer literal without sign
IsNumberLiteral(s) ==
    /\ Len(s) >= 1
    /\ \A i \in 1..Len(s) : \E d \in 1..10 : Digit[d] = s[i]
    /\ (Len(s) > 1 => s[1] # "0")

RECURSIVE IntOf(_)
IntOf(s) ==
    IF s = <<>> THEN 0
    ELSE 10 * IntOf(SubSeq(s, 1, Len(s) - 1))
         + (CHOOSE d \in 0..9 : Digit[d + 1] = s[Len(s)])

\* json.loads(text) for a text that is a string, an unsigned integer, null,
\* [], {} or an object of one string member, and for texts that are no JSON
JsonLoads(text) ==
    LET keep == {i \in 1..Len(text) : text[i] \notin JsonWhitespace}
        t == IF keep = {} THEN <<>>
             ELSE SubSeq(text, CHOOSE i \in keep : \A j \in keep : i <= j,
                               CHOOSE i \in keep : \A j \in keep : i >= j)
        inner == SubSeq(t, 2, Len(t) - 1)
        q2 == NextQuote(inner, 1)
        key == SubSeq(inner, 1, q2)
        rest == SubSeq(inner, q2 + 2, Len(inner))
    IN  CASE IsStringLiteral(t) -> [ok |-> TRUE, value |-> Str(inner)]
          [] IsNumberLiteral(t) -> [ok |-> TRUE, value |-> Num(IntOf(t))]
          [] t = <<"n", "u", "l", "l">> -> [ok |-> TRUE, value |-> None]
          [] t = <<"[", "]">> -> [ok |-> TRUE, value |-> List(<<>>)]
          [] t = <<"{", "}">> -> [ok |-> TRUE, value |-> EmptyDict]
          [] /\ Len(t) >= 7 /\ t[1] = "{" /\ t[Len(t)] = "}"
             /\ q2 > 0 /\ IsStringLiteral(key)
             /\ Len(inner) > q2 /\ inner[q2 + 1] = ":"
             /\ IsStringLiteral(rest)
               -> [ok |-> TRUE,
                   value |-> Dict([k \in {SubSeq(key, 2, Len(key) - 1)} |->
                                     Str(SubSeq(rest, 2, Len(rest) - 1))])]
          [] OTHER -> [ok |-> FALSE, value |-> None]

Raw(text) == Dict([k \in {K_raw} |-> Str(text)])

\* a variant with a fault: a text body is passed on as it is
_normalize_payload_unwrapped(body) ==
    CASE body.t = "dict" -> body
      [] body.t = "bytes" ->
            LET dec == DecodeStrict(body.v)
                parsed == JsonLoads(dec.text)
            IN  IF dec.ok /\ parsed.ok THEN parsed.value
                ELSE Raw(DecodeIgnore(body.v))
      [] body.t = "str" -> body
      [] OTHER -> EmptyDict

\* _normalize_payload(body)
_normalize_payload(body) ==
    CASE body.t = "dict" -> body
      [] body.t = "bytes" ->
            LET dec == DecodeStrict(body.v)
                parsed == JsonLoads(dec.text)
            IN  IF dec.ok /\ parsed.ok THEN parsed.value
                ELSE Raw(DecodeIgnore(body.v))
      [] body.t = "str" -> Raw(body.v)
      [] OTHER -> EmptyDict

\* key in x
In(key, x) ==
    CASE x.t = "dict" -> key \in DOMAIN x.v
      [] x.t = "str" -> Contains(key, x.v)
      [] x.t = "list" -> \E i \in 1..Len(x.v) : x.v[i] = Str(key)
      [] OTHER -> FALSE

\* if key not in payload and "raw" in payload: payload = {key: payload["raw"]}
Rebind(payload, key) ==
    IF payload.t \notin {"dict", "str", "list"}
    THEN [ok |-> FALSE, payload |-> None]
    ELSE IF ~In(key, payload) /\ In(K_raw, payload)
    THEN IF payload.t # "dict" THEN [ok |-> FALSE, payload |-> None]
         ELSE [ok |-> TRUE, payload |-> Dict(key :> payload.v[K_raw])]
    ELSE [ok |-> TRUE, payload |-> payload]

\* a variant with a fault: "raw" is rebound to the key of fetch
search_rebinds_id(body) ==
    LET r == Rebind(_normalize_payload(body), K_id)
    IN  IF r.ok THEN mcp_search(r.payload) ELSE Outcome(ServerError("TypeError"), <<>>)

\* search(body)
search(body) ==
    LET r == Rebind(_normalize_payload(body), K_query)
    IN  IF r.ok THEN mcp_search(r.payload) ELSE Outcome(ServerError("TypeError"), <<>>)

\* fetch(body)
fetch(body) ==
    LET r == Rebind(_normalize_payload(body), K_id)
    IN  IF r.ok THEN mcp_fetch(r.payload) ELSE Outcome(ServerError("TypeError"), <<>>)

----------------------------------------------------------------------------
(* The upstream accounts and the requests of the read-only tools           *)

\* POST /accounts answers {"data": {"accounts": l}}
AccountsBody(l) == Dict(K_data :> Dict(K_accounts :> List(l)))
\* ... or a body without the data.accounts path
NoDataBody == EmptyDict
NullDataBody == Dict(K_data :> None)
NoAccountsBody == Dict(K_data :> EmptyDict)
\* ... or {"data": {"accounts": null}}
NullAccountsBody == Dict(K_data :> Dict(K_accounts :> None))

Account(id, name) == Dict((K_id :> id) @@ (K_name :> Str(name)))
AccountWith(id, name, balance) ==
    Dict((K_id :> id) @@ (K_name :> Str(name)) @@ (K_balance :> balance))
Dollars(n) == Dict(K_amountInDollars :> Num(n))

\* the accounts the fetch requests are tried on: an id that carries the rule
\* prefix, ids that differ in case, a numeric id
FetchAccounts ==
    {AccountWith(Str(<<"a", "1">>), <<"A", "l">>, Dollars(5)),
     Account(Str(<<"r", "u", "_", "1">>), <<"R", "u">>),
     AccountWith(Str(<<"A", "1">>), <<"b", "o">>, None),
     AccountWith(Num(7), <<"N", "7">>, EmptyDict)}

\* the accounts the searches are tried on
SearchAccounts ==
    {AccountWith(Str(<<"A", "1">>), <<"B", "o", "b">>, Dollars(5)),
     Account(Str(<<"b", "2">>), <<"A", "l">>),
     AccountWith(Str(<<"c", "3">>), <<"C", "y">>, None)}

MaxAccounts == 12
MaxFetchAccounts == 2

Texts ==
    {<<>>, <<"a", "1">>, <<" ", "a", "1">>, <<"A", "1">>, <<"r", "u", "_", "1">>,
     <<"r", "u", "_", "2">>, <<" ", "r", "u", "_", "2", " ">>, <<"z", "z">>, <<"7">>}

SearchQueries ==
    {<<>>, <<"b", "a", "l", "a", "n", "c", "e", "s">>, K_accounts,
     <<"A", "c", "c", "o", "u", "n", "t", "s">>, <<"a">>, <<"A">>, <<"z", "z">>}

QueryBody(s) == Dict(K_query :> Str(s))
IdBody(s) == Dict(K_id :> Str(s))

\* the bodies a binary request carries: texts that are no JSON, JSON that is
\* no object, JSON objects, and bytes that are no UTF-8
ByteBodies ==
    {<<"a", "1">>, <<" ", "a", "1">>,
     <<Quote, "a", "1", Quote>>, <<"7">>, <<"n", "u", "l", "l">>, <<"[", "]">>,
     <<"{", "}">>,
     <<"{", Quote, "i", "d", Quote, ":", Quote, "a", "1", Quote, "}">>,
     <<"{", Quote, "q", "u", "e", "r", "y", Quote, ":", Quote, "a", Quote, "}">>,
     <<"{", Quote, "r", "a", "w", Quote, ":", Quote, "a", "1", Quote, "}">>,
     <<BadByte, "a", "1">>, <<"{", BadByte>>}

McpSearchPayloads ==
    {QueryBody(s) : s \in Texts} \cup {EmptyDict, Dict(K_query :> None), Dict(K_query :> Num(3))}
McpFetchPayloads ==
    {IdBody(s) : s \in Texts} \cup {EmptyDict, Dict(K_id :> None), Dict(K_id :> Num(7))}
WrapperBodies ==
    {Str(s) : s \in Texts} \cup {QueryBody(s) : s \in Texts} \cup {IdBody(s) : s \in Texts}
    \cup {Raw(<<"a", "1">>)} \cup {Bytes(b) : b \in ByteBodies}
    \cup {None, Num(7), EmptyDict}

Request(op, arg) == [op |-> op, arg |-> arg, rule |-> <<>>, up |-> "ok"]

Handle(op, arg, out, normalized) ==
    /\ req' = Request(op, arg)
    /\ norm' = normalized
    /\ resp' = out.resp
    /\ calls' = out.calls
    /\ UNCHANGED <<config, upstream, stream>>

McpSearch == \E payload \in McpSearchPayloads :
    Handle("mcp_search", payload, mcp_search(payload), None)

McpFetch == \E payload \in McpFetchPayloads :
    Handle("mcp_fetch", payload, mcp_fetch(payload), None)

Search == \E body \in WrapperBodies :
    Handle("search", body, search(body), _normalize_payload(body))

Fetch == \E body \in WrapperBodies :
    Handle("fetch", body, fetch(body), _normalize_payload(body))

InitMcp ==
    /\ ACCESS \in {<<>>, <<"t">>}
    /\ ADMIN = <<>> /\ RULE_SECRETS = <<>>
    /\ BUFFER = 0 /\ PCT = NoPercent /\ CAP = 0
    /\ \/ \E n \in 0..MaxFetchAccounts : \E l \in [1..n -> FetchAccounts] :
              upstream = [status |-> "ok", body |-> AccountsBody(l)]
       \/ \E b \in {NoDataBody, NullDataBody, NoAccountsBody, NullAccountsBody} :
              upstream = [status |-> "ok", body |-> b]
       \/ upstream = [status |-> "error", body |-> None]
    /\ req = NoRequest /\ norm = None /\ resp = NoResponse /\ calls = <<>>
    /\ IdleStream

NextMcp == McpSearch \/ McpFetch \/ Search \/ Fetch

SpecMcp == InitMcp /\ [][NextMcp]_vars

\* n times the account a
Run(a, n) == [i \in 1..n |-> a]

\* POST /mcp/search on long account lists: up to three runs of one account each
SearchLong == \E q \in SearchQueries :
    Handle("mcp_search", QueryBody(q), mcp_search(QueryBody(q)), None)

InitSearch ==
    /\ ACCESS = <<"t">>
    /\ ADMIN = <<>> /\ RULE_SECRETS = <<>>
    /\ BUFFER = 0 /\ PCT = NoPercent /\ CAP = 0
    /\ \E a, b, c \in SearchAccounts : \E i, j, k \in 0..MaxAccounts :
           /\ i + j + k <= MaxAccounts
           /\ upstream = [status |-> "ok",
                          body |-> AccountsBody(Run(a, i) \o Run(b, j) \o Run(c, k))]
    /\ req = NoRequest /\ norm = None /\ resp = NoResponse /\ calls = <<>>
    /\ IdleStream

NextSearch == SearchLong

SpecSearch == InitSearch /\ [][NextSearch]_vars

----------------------------------------------------------------------------
(* The claims of Search                                                    *)

\* the upstream call succeeded and its body carries a list at data.accounts
HasAccounts ==
    /\ ACCESS # <<>> /\ upstream.status = "ok" /\ upstream.body.t = "dict"
    /\ K_data \in DOMAIN upstream.body.v
    /\ upstream.body.v[K_data].t = "dict"
    /\ K_accounts \in DOMAIN upstream.body.v[K_data].v
    /\ upstream.body.v[K_data].v[K_accounts].t = "list"
UpstreamAccounts == upstream.body.v[K_data].v[K_accounts].v

\* the request is a search whose payload carries a text query
IsSearch ==
    /\ req.op = "mcp_search" /\ req.arg.t = "dict"
    /\ K_query \in DOMAIN req.arg.v /\ req.arg.v[K_query].t = "str"
Query == req.arg.v[K_query].v
Results == resp.body.content[1].text.json.results

NameOf(a) == a.v[K_name].v
IdOf(a) == PyStr(a.v[K_id])
Keywords == {<<"b", "a", "l", "a", "n", "c", "e", "s">>, K_accounts}

\* the k-th smallest element of a set of numbers
Kth(S, k) == CHOOSE i \in S : Cardinality({j \in S : j <= i}) = k
Least(a, b) == IF a < b THEN a ELSE b

\* the first 10 accounts, in upstream order, of those at the positions idx
FirstTen(idx) ==
    [k \in 1..Least(10, Cardinality(idx)) |-> ResultItem(UpstreamAccounts[Kth(idx, k)])]

\* an account matches as C3 states it: the id is compared as it is
MatchesAsStated(q, a) ==
    \/ lower(q) = <<>> \/ lower(q) \in Keywords
    \/ Contains(lower(q), lower(NameOf(a)))
    \/ Contains(lower(q), IdOf(a))

\* an account matches: name and id are both lowercased
MatchesLowered(q, a) ==
    \/ lower(q) = <<>> \/ lower(q) \in Keywords
    \/ Contains(lower(q), lower(NameOf(a)))
    \/ Contains(lower(q), lower(IdOf(a)))

\* C3, as stated: Search returns exactly the first 10 matching accounts in
\* upstream order, an account matching when the lowercased query is empty,
\* is "balances" or "accounts", or is a substring of the lowercased name or
\* of the id.
C3_AsStated ==
    IsSearch /\ HasAccounts =>
        /\ resp.status = 200
        /\ Results = FirstTen({i \in 1..Len(UpstreamAccounts) :
                                  MatchesAsStated(Query, UpstreamAccounts[i])})

\* C3, amended: as C3, with the query a substring of the lowercased name or
\* of the lowercased id; the result has at most 10 items, and the queries "",
\* "balances" and "accounts" return the first min(10, n) of the n accounts.
C3_FirstTenMatches ==
    IsSearch /\ HasAccounts =>
        /\ resp.status = 200
        /\ Results = FirstTen({i \in 1..Len(UpstreamAccounts) :
                                  MatchesLowered(Query, UpstreamAccounts[i])})
        /\ Len(Results) <= 10
        /\ lower(Query) \in Keywords \cup {<<>>} =>
              Results = [k \in 1..Least(10, Len(UpstreamAccounts)) |->
                            ResultItem(UpstreamAccounts[k])]

\* C3's case: more than 10 accounts match a query that is no keyword, an
\* account that does not match stands before the tenth match, and 10 come back.
C3_Witness ==
    /\ IsSearch /\ HasAccounts /\ Query = <<"A">>
    /\ Cardinality({i \in 1..Len(UpstreamAccounts) :
                       MatchesLowered(Query, UpstreamAccounts[i])}) > 10
    /\ ~MatchesLowered(Query, UpstreamAccounts[1])
    /\ resp.status = 200 /\ Len(Results) = 10

\* the account's lowercased name or its id contains q
ContainsQuery(q, a) == Contains(q, lower(NameOf(a))) \/ Contains(q, IdOf(a))

\* C4, as stated: every account whose lowercased name or id contains q
\* appears in the Search results.
C4_AsStated ==
    IsSearch /\ HasAccounts =>
        \A i \in 1..Len(UpstreamAccounts) :
            ContainsQuery(Query, UpstreamAccounts[i]) =>
                /\ resp.status = 200
                /\ \E k \in 1..Len(Results) : Results[k] = ResultItem(UpstreamAccounts[i])

\* the number of matching accounts before position i
MatchesBefore(i) ==
    Cardinality({j \in 1..(i - 1) : MatchesLowered(Query, UpstreamAccounts[j])})

\* C4, amended: every account whose lowercased name or id contains q, and
\* that fewer than 10 matching accounts precede in upstream order, appears
\* in the Search results, at the place its rank among the matches gives it.
C4_MatchAppears ==
    IsSearch /\ HasAccounts =>
        \A i \in 1..Len(UpstreamAccounts) :
            ContainsQuery(Query, UpstreamAccounts[i]) /\ MatchesBefore(i) < 10 =>
                /\ resp.status = 200
                /\ Len(Results) > MatchesBefore(i)
                /\ Results[MatchesBefore(i) + 1] = ResultItem(UpstreamAccounts[i])

\* C4's case: an account whose id contains the upper-case query, behind one
\* that does not match, is in the results; an eleventh match is left out.
C4_Witness ==
    /\ IsSearch /\ HasAccounts /\ Query = <<"A">>
    /\ Len(UpstreamAccounts) = 11
    /\ ~MatchesLowered(Query, UpstreamAccounts[1])
    /\ Contains(Query, IdOf(UpstreamAccounts[2]))
    /\ resp.status = 200 /\ Results[1] = ResultItem(UpstreamAccounts[2])
    /\ Len(Results) = 10

----------------------------------------------------------------------------
(* The claims of Fetch, of the wrappers and of the upstream client         *)

\* the request is a fetch whose payload carries a text id
IsFetch ==
    /\ req.op = "mcp_fetch" /\ req.arg.t = "dict"
    /\ K_id \in DOMAIN req.arg.v /\ req.arg.v[K_id].t = "str"
RecordId == req.arg.v[K_id].v
Doc == resp.body.content[1].text.json

AccountDoc(a) ==
    [id |-> IdOf(a), title |-> NameOf(a), text |-> JsonDumps(a),
     url |-> AccountsUrl \o IdOf(a)]
RuleDoc(id) ==
    [id |-> id, title |-> <<"Sequence Rule ">> \o id, text |-> Literal(RuleText),
     url |-> RulesUrl \o id]

\* the resolution order of Fetch for the identifier id over the accounts l
Resolves(id, l) ==
    LET hits == {i \in 1..Len(l) : IdOf(l[i]) = id}
    IN  IF hits # {}
        THEN resp.status = 200 /\ Doc = AccountDoc(l[Kth(hits, 1)])
        ELSE IF Len(id) >= 3 /\ id[1] = "r" /\ id[2] = "u" /\ id[3] = "_"
        THEN resp.status = 200 /\ Doc = RuleDoc(id)
        ELSE resp.status = 404 /\ resp.detail = "Not found"

\* C5, as stated: an id exactly equal to an account's id gives that account's
\* document, also when it begins with "ru_"; otherwise an id that begins
\* with "ru_" gives a rule descriptor referencing that exact id; otherwise
\* 404; an id equal to no account's id never gives an account document.
C5_AsStated == IsFetch /\ HasAccounts => Resolves(RecordId, UpstreamAccounts)

RECURSIVE DropBlanks(_)
\* s without its leading whitespace
DropBlanks(s) ==
    IF s # <<>> /\ Head(s) \in Whitespace THEN DropBlanks(Tail(s)) ELSE s
Reverse(s) == [i \in 1..Len(s) |-> s[Len(s) + 1 - i]]
\* s without its leading and trailing whitespace
Trimmed(s) == Reverse(DropBlanks(Reverse(DropBlanks(s))))

\* C5, amended: Fetch resolves the identifier with its leading and trailing
\* whitespace removed: if that equals an account's id exactly, the first such
\* account's document; otherwise, if it begins with "ru_", a rule descriptor
\* whose id, title and url reference the trimmed id; otherwise 404.
C5_FetchOrder == IsFetch /\ HasAccounts => Resolves(Trimmed(RecordId), UpstreamAccounts)

\* C5's case: the id begins with "ru_" and is an account's id, and the
\* account's document came back.
C5_Witness ==
    /\ IsFetch /\ HasAccounts /\ RecordId = <<"r", "u", "_", "1">>
    /\ Len(UpstreamAccounts) = 2 /\ IdOf(UpstreamAccounts[2]) = RecordId
    /\ IdOf(UpstreamAccounts[1]) = <<"a", "1">>
    /\ resp.status = 200 /\ Doc = AccountDoc(UpstreamAccounts[2])

\* the body is the structured body {key: <text>}
Structured(key) ==
    req.arg.t = "dict" /\ DOMAIN req.arg.v = {key} /\ req.arg.v[key].t = "str"

\* C6: POST /search with the raw string s and with {query: s} both end as
\* /mcp/search does on {query: s}; POST /fetch with the raw string s and with
\* {id: s} both end as /mcp/fetch does on {id: s}.
C6_WrappersAgree ==
    /\ req.op = "search" /\ req.arg.t = "str" =>
          Outcome(resp, calls) = mcp_search(QueryBody(req.arg.v))
    /\ req.op = "search" /\ Structured(K_query) =>
          Outcome(resp, calls) = mcp_search(req.arg)
    /\ req.op = "fetch" /\ req.arg.t = "str" =>
          Outcome(resp, calls) = mcp_fetch(IdBody(req.arg.v))
    /\ req.op = "fetch" /\ Structured(K_id) =>
          Outcome(resp, calls) = mcp_fetch(req.arg)

\* C6's case: POST /search with a raw string found an account.
C6_Witness ==
    /\ req.op = "search" /\ req.arg = Str(<<"a", "1">>)
    /\ norm = Raw(<<"a", "1">>)
    /\ resp.status = 200 /\ Len(resp.body.content[1].text.json.results) = 1

\* C7: normalize returns a mapping for every body: a mapping unchanged, a
\* text t as {raw: t}, and for a binary body the parsed JSON or, when it does
\* not parse, {raw: <decoded text>}.
C7_AsStated ==
    req.op \in {"search", "fetch"} =>
        /\ norm.t = "dict"
        /\ req.arg.t = "dict" => norm = req.arg
        /\ req.arg.t = "str" => norm = Raw(req.arg.v)
        /\ req.arg.t = "bytes" /\ (~DecodeStrict(req.arg.v).ok \/ ~JsonLoads(req.arg.v).ok)
              => norm = Raw(DecodeIgnore(req.arg.v))

\* the upstream call succeeds and its body lacks the data.accounts path
LacksPath ==
    /\ ACCESS # <<>> /\ upstream.status = "ok"
    /\ upstream.body \in {NoDataBody, NullDataBody, NoAccountsBody}

\* C10: when the upstream body has no data field, a null data field or a
\* data object without accounts, seq_accounts returns an empty list; Search
\* answers an envelope with no results, and Fetch answers the rule
\* descriptor for an id with the rule prefix and 404 for any other.
C10_MissingPath ==
    LacksPath =>
        /\ seq_accounts.ok /\ seq_accounts.value = List(<<>>)
        /\ IsSearch => resp.status = 200 /\ Results = <<>>
        /\ IsFetch => Resolves(Trimmed(RecordId), <<>>)

\* C10's case: the upstream body holds "data": null and a search for
\* everything came back empty.
C10_Witness ==
    /\ LacksPath /\ upstream.body = NullDataBody
    /\ IsSearch /\ Query = <<>>
    /\ resp.status = 200 /\ Results = <<>>

----------------------------------------------------------------------------
(* IEEE-754 doubles.  A double >= 0 is [m, k], the number m * 2^-k, with m  *)
(* a natural number of at most 53 significant bits written in limbs of 15   *)
(* bits, least significant first, without leading zero limbs.               *)

Limb == 2 ^ 15

RECURSIVE Norm(_)
\* n without its leading zero limbs
Norm(n) == IF n # <<>> /\ n[Len(n)] = 0 THEN Norm(SubSeq(n, 1, Len(n) - 1)) ELSE n

RECURSIVE MulCarry(_, _, _)
MulCarry(n, c, carry) ==
    IF n = <<>> THEN (IF carry = 0 THEN <<>> ELSE <<carry>>)
    ELSE <<(n[1] * c + carry) % Limb>> \o MulCarry(Tail(n), c, (n[1] * c + carry) \div Limb)
\* n * c for 0 <= c < 2^15
MulSmall(n, c) == Norm(MulCarry(n, c, 0))

RECURSIVE AddOne(_)
AddOne(n) ==
    IF n = <<>> THEN <<1>>
    ELSE IF n[1] + 1 < Limb THEN <<n[1] + 1>> \o Tail(n)
    ELSE <<0>> \o AddOne(Tail(n))

\* the number of bits of n
BitLen(n) ==
    IF n = <<>> THEN 0
    ELSE 15 * (Len(n) - 1) + (CHOOSE b \in 1..15 : 2 ^ (b - 1) <= n[Len(n)] /\ n[Len(n)] < 2 ^ b)

\* bit j of n, bit 0 the least significant
Bit(n, j) == IF j \div 15 < Len(n) THEN (n[(j \div 15) + 1] \div 2 ^ (j % 15)) % 2 ELSE 0

\* one of the j low bits of n is set
HasLowBits(n, j) ==
    \/ \E i \in 1..Len(n) : i <= j \div 15 /\ n[i] # 0
    \/ j \div 15 < Len(n) /\ n[(j \div 15) + 1] % 2 ^ (j % 15) # 0

\* n \div 2^j
ShiftRight(n, j) ==
    LET w == SubSeq(n, (j \div 15) + 1, Len(n))
        d == j % 15
    IN  Norm([i \in 1..Len(w) |->
                 (w[i] \div 2 ^ d)
                 + (IF i < Len(w) THEN (w[i + 1] % 2 ^ d) * 2 ^ (15 - d) ELSE 0)])

RECURSIVE ToInt(_)
ToInt(n) == IF n = <<>> THEN 0 ELSE n[1] + Limb * ToInt(Tail(n))

\* round to nearest, ties to even, to 53 significant bits
Round53(x) ==
    LET d == BitLen(x.m) - 53
        q == ShiftRight(x.m, d)
        up == Bit(x.m, d - 1) = 1 /\ (HasLowBits(x.m, d - 1) \/ Bit(q, 0) = 1)
    IN  IF d <= 0 THEN x
        ELSE [m |-> IF up THEN AddOne(q) ELSE q, k |-> x.k - d]

\* x * y for doubles x and y, the significand of y below 2^15
FMul(x, y) == Round53([m |-> MulSmall(x.m, ToInt(y.m)), k |-> x.k + y.k])

\* float(n) for an int n, 0 <= n < 2^15
FloatOf(n) == [m |-> IF n = 0 THEN <<>> ELSE <<n>>, k |-> 0]

\* the double q / 4, 0 <= q < 2^15
QuartersOf(q) == [m |-> IF q = 0 THEN <<>> ELSE <<q>>, k |-> 2]

\* int(x) for x >= 0: the integer part
Floor(x) == ToInt(ShiftRight(x.m, x.k))

\* c < x for an int c and a double x, compared exactly as Python compares them
IntLess(c, x) == c < Floor(x) \/ (c = Floor(x) /\ HasLowBits(x.m, x.k))

\* the doubles 0.0, 0.1, 0.15, 0.29, 0.30, 0.5 and 1.0
Percent000 == [m |-> <<>>, k |-> 0]
Percent010 == [m |-> <<19661, 6553, 13107, 102>>, k |-> 55]
Percent015 == [m |-> <<13107, 26214, 19660, 153>>, k |-> 55]
Percent029 == [m |-> <<17039, 20971, 15728, 148>>, k |-> 54]
Percent030 == [m |-> <<13107, 26214, 19660, 153>>, k |-> 54]
Percent050 == [m |-> <<1>>, k |-> 1]
Percent100 == [m |-> <<1>>, k |-> 0]
Percents ==
    {Percent000, Percent010, Percent015, Percent029, Percent030, Percent050, Percent100}

----------------------------------------------------------------------------
(* POST /remote/amount                                                     *)

K_checkingBalance ==
    <<"c", "h", "e", "c", "k", "i", "n", "g", "B", "a", "l", "a", "n", "c", "e">>

\* a Python float that is a whole number of quarters, q / 4
Float(q) == [t |-> "float", v |-> q]

\* a variant with a fault: the product is not clamped at the cap
remote_amount_uncapped(payload) ==
    LET b == Get(payload.v, K_checkingBalance, Num(0))
    IN  IF b.t \notin {"num", "float"} THEN Outcome(ServerError("ValueError"), <<>>)
        ELSE LET balance == IF b.t = "num" THEN 4 * b.v ELSE b.v
                 excess == IF balance - 4 * BUFFER > 0
                           THEN QuartersOf(balance - 4 * BUFFER) ELSE FloatOf(0)
                 x == FMul(FMul(PCT, excess), FloatOf(100))
             IN  Outcome(Ok([amountInCents |-> Floor(x)]), <<>>)

\* remote_amount(payload); balance counts quarters, the balance is balance / 4
remote_amount(payload) ==
    LET b == Get(payload.v, K_checkingBalance, Num(0))
    IN  IF b.t \notin {"num", "float"} THEN Outcome(ServerError("ValueError"), <<>>)
        ELSE LET balance == IF b.t = "num" THEN 4 * b.v ELSE b.v
                 excess == IF balance - 4 * BUFFER > 0
                           THEN QuartersOf(balance - 4 * BUFFER) ELSE FloatOf(0)
                 x == FMul(FMul(PCT, excess), FloatOf(100))
                 transfer_cents == IF IntLess(CAP, x) THEN CAP ELSE Floor(x)
             IN  Outcome(Ok([amountInCents |-> transfer_cents]), <<>>)

MaxExcess == 40

\* the balances tried: in steps of a quarter around the buffer, and the three
\* whole balances of the examples
Balances ==
    {Float(4 * BUFFER + d) : d \in (-2)..MaxExcess} \cup {Num(1000), Num(1500), Num(2000)}
BalanceBody(b) == Dict(K_checkingBalance :> b)

RemoteAmount ==
    \E payload \in {BalanceBody(b) : b \in Balances}
                   \cup {EmptyDict, Dict(K_checkingBalance :> Str(<<"x">>))} :
        Handle("amount", payload, remote_amount(payload), None)

InitAmount ==
    /\ ACCESS = <<"t">> /\ ADMIN = <<>> /\ RULE_SECRETS = <<>>
    /\ BUFFER \in {0, 1000}
    /\ PCT \in Percents
    /\ CAP \in {0, 100, 30000}
    /\ IdleHttp
    /\ IdleStream

NextAmount == RemoteAmount

SpecAmount == InitAmount /\ [][NextAmount]_vars

\* the request is an amount request that carries a number
IsAmount ==
    /\ req.op = "amount" /\ req.arg.t = "dict"
    /\ K_checkingBalance \in DOMAIN req.arg.v
    /\ req.arg.v[K_checkingBalance].t \in {"num", "float"}
\* four times the number b
Times4(b) == IF b.t = "num" THEN 4 * b.v ELSE b.v
Balance4 == Times4(req.arg.v[K_checkingBalance])
Amount == resp.body.amountInCents
AmountFor(b) == remote_amount(BalanceBody(b)).resp.body.amountInCents
\* max(0, checkingBalance - buffer) * percent * 100, in doubles, left to right
Product ==
    FMul(FMul(PCT, QuartersOf(IF Balance4 > 4 * BUFFER THEN Balance4 - 4 * BUFFER ELSE 0)),
         FloatOf(100))
DefaultSweep == BUFFER = 1000 /\ PCT = Percent030 /\ CAP = 30000

\* C8: amountInCents is floor(min(max(0, checkingBalance - buffer) * percent
\* * 100, dailyCapCents)), the products taken in double arithmetic as the
\* specification requires; it lies in 0..dailyCapCents, is 0 for a balance
\* up to the buffer, does not decrease as the balance grows, and with buffer
\* 1000, percent 0.30 and cap 30000 it is 0, 15000 and 30000 for the
\* balances 1000, 1500 and 2000.
C8_Amount ==
    IsAmount =>
        /\ resp.status = 200
        /\ Amount = Least(Floor(Product), CAP)
        /\ 0 <= Amount /\ Amount <= CAP
        /\ Balance4 <= 4 * BUFFER => Amount = 0
        /\ \A b \in Balances : Times4(b) <= Balance4 => AmountFor(b) <= Amount
        /\ DefaultSweep /\ Balance4 = 4 * 1000 => Amount = 0
        /\ DefaultSweep /\ Balance4 = 4 * 1500 => Amount = 15000
        /\ DefaultSweep /\ Balance4 = 4 * 2000 => Amount = 30000

\* C8's case: the default sweep of a balance of 1500 gave 15000 cents.
C8_Witness ==
    /\ IsAmount /\ DefaultSweep
    /\ req.arg.v[K_checkingBalance] = Num(1500) /\ Amount = 15000

----------------------------------------------------------------------------
(* GET /sse/: event_stream, one generator per open stream                  *)

Streams == {"s1", "s2"}
MaxEvents == 3

Ready == [event |-> "ready", data |-> "ok"]
\* data is int(time.time()), whatever the clock reads
Heartbeat == [event |-> "heartbeat", data |-> "unix-timestamp"]

\* events keeps the first MaxEvents events a stream has emitted
Emit(s, e) ==
    events' = [events EXCEPT ![s] = IF Len(@) < MaxEvents THEN Append(@, e) ELSE @]

\* yield "event: ready\ndata: ok\n\n"
YieldReady(s) ==
    /\ pc[s] = "ready"
    /\ Emit(s, Ready)
    /\ pc' = [pc EXCEPT ![s] = "check"]
    /\ UNCHANGED <<config, http, disconnected, observed>>

\* a variant with a fault: the loop never looks at the client
CheckDisconnected_never(s) ==
    /\ pc[s] = "check"
    /\ pc' = [pc EXCEPT ![s] = "heartbeat"]
    /\ UNCHANGED <<config, http, disconnected, observed, events>>

\* if await request.is_disconnected(): break
CheckDisconnected(s) ==
    /\ pc[s] = "check"
    /\ IF disconnected[s]
       THEN /\ pc' = [pc EXCEPT ![s] = "done"]
            /\ observed' = [observed EXCEPT ![s] = TRUE]
       ELSE /\ pc' = [pc EXCEPT ![s] = "heartbeat"]
            /\ UNCHANGED observed
    /\ UNCHANGED <<config, http, disconnected, events>>

\* yield f"event: heartbeat\ndata: {int(time.time())}\n\n"
YieldHeartbeat(s) ==
    /\ pc[s] = "heartbeat"
    /\ Emit(s, Heartbeat)
    /\ pc' = [pc EXCEPT ![s] = "sleep"]
    /\ UNCHANGED <<config, http, disconnected, observed>>

\* await asyncio.sleep(15)
Sleep(s) ==
    /\ pc[s] = "sleep"
    /\ pc' = [pc EXCEPT ![s] = "check"]
    /\ UNCHANGED <<config, http, disconnected, observed, events>>

\* the client goes away
Disconnect(s) ==
    /\ ~disconnected[s]
    /\ disconnected' = [disconnected EXCEPT ![s] = TRUE]
    /\ UNCHANGED <<config, http, pc, observed, events>>

\* one step of the generator of stream s
StreamStep(s) == YieldReady(s) \/ CheckDisconnected(s) \/ YieldHeartbeat(s) \/ Sleep(s)

InitSse ==
    /\ IdleConfig
    /\ upstream = [status |-> "ok", body |-> None]
    /\ req = NoRequest /\ norm = None /\ resp = NoResponse /\ calls = <<>>
    /\ pc = [s \in Streams |-> "ready"]
    /\ disconnected = [s \in Streams |-> FALSE]
    /\ observed = [s \in Streams |-> FALSE]
    /\ events = [s \in Streams |-> <<>>]

NextSse ==
    \E s \in Streams :
        \/ YieldReady(s)
        \/ CheckDisconnected(s)
        \/ YieldHeartbeat(s)
        \/ Sleep(s)
        \/ Disconnect(s)

\* the event loop keeps scheduling every generator that can take a step
SpecSse == InitSse /\ [][NextSse]_vars /\ \A s \in Streams : WF_vars(StreamStep(s))

\* the first event is ready/ok and every later one a heartbeat
ReadyThenHeartbeats ==
    \A s \in Streams :
        /\ pc[s] # "ready" => Len(events[s]) >= 1
        /\ \A i \in 1..Len(events[s]) :
              events[s][i] = (IF i = 1 THEN Ready ELSE Heartbeat)

\* a heartbeat is emitted only right after a check that found the client
\* connected, and never once a check has observed the disconnect
CheckedBeforeHeartbeat ==
    \A s \in Streams :
        /\ pc'[s] = "heartbeat" /\ pc[s] # "heartbeat" =>
              pc[s] = "check" /\ ~disconnected[s]
        /\ pc[s] = "heartbeat" /\ pc'[s] # "heartbeat" => pc'[s] = "sleep"
        /\ observed[s] => pc'[s] = "done" /\ events'[s] = events[s]

\* C9: on each stream the first event is ready/ok and every later one a
\* heartbeat; the loop checks the disconnect status before each heartbeat and
\* emits none after a check has observed the disconnect; once the client has
\* disconnected the stream eventually terminates.
C9_Stream ==
    /\ []ReadyThenHeartbeats
    /\ [][CheckedBeforeHeartbeat]_vars
    /\ \A s \in Streams : disconnected[s] ~> (pc[s] = "done")

\* C9's case: a stream has emitted ready and two heartbeats, its client went
\* away, a check observed it and the stream ended while the other runs on.
C9_Witness ==
    /\ pc["s1"] = "done" /\ observed["s1"] /\ disconnected["s1"]
    /\ events["s1"] = <<Ready, Heartbeat, Heartbeat>>
    /\ pc["s2"] = "sleep" /\ ~disconnected["s2"]

====
